---- MODULE Spec2Model ----
(***************************************************************************)
(* A model of the compute core of the DeepseekV3 decoder layer             *)
(* (modular_deepseek_v3.py): the MoE gate (MoEGate.forward), the expert    *)
(* dispatch (DeepseekV3MoE.forward / moe_infer), the decoupled rotary      *)
(* application (apply_rotary_pos_emb) and the latent attention             *)
(* (DeepseekV3Attention.forward).                                          *)
(*                                                                         *)
(* Tensors are functions over 0-based index ranges, as in the source.      *)
(* Real-valued gate weights are exact rationals <<numerator, denominator>> *)
(* so that the division by (sum + 1e-20) is modelled by what it computes.  *)
(* Gate scores and the correction bias are counted in units of the         *)
(* epsilon of line 133 (one unit = 1e-20).                                 *)
(***************************************************************************)
EXTENDS Integers, Sequences, FiniteSets

VARIABLES
    pc,                       \* position of the call being modelled
    \* ---- MoEGate.forward (one token row; every step of it is row-wise)
    scores,                   \* logits.sigmoid(), per expert
    e_score_correction_bias,  \* the per-expert correction bias
    norm_topk_prob,           \* config.norm_topk_prob
    scores_for_choice,        \* bias-adjusted (then masked) scores
    group_idx,                \* the selected groups
    topk_indices,             \* [token][slot] -> expert index
    topk_weights,             \* [token][slot] -> weight
    prev_decision,            \* the gate decision of the previous call
    \* ---- DeepseekV3MoE.forward / moe_infer
    hidden_states,            \* [token] -> the token's row
    experts,                  \* self.experts: the list of expert parameters
    tokens_per_expert,        \* [expert] -> number of assigned entries
    sorted_indices,           \* topk_indices.view(-1).argsort()
    sorted_tokens,            \* hidden_states[sorted_indices // num_topk]
    expert_idx,               \* the loop variable of line 196
    current_pos,              \* start of the next segment
    expert_outputs,           \* the list of per-expert outputs
    invoked,                  \* history: the expert calls made, with their segments
    y,                        \* the value forward returns
    prev_output,              \* the value returned for the previous expert pool
    \* ---- apply_rotary_pos_emb and DeepseekV3Attention.forward
    \*      (one batch entry, one position; tensors are [head][channel])
    attn_implementation,      \* config._attn_implementation
    output_attentions,        \* kwargs.get("output_attentions", False)
    qk_nope_head_dim,         \* config.qk_nope_head_dim
    qk_rope_head_dim,         \* config.qk_rope_head_dim
    v_head_dim,               \* config.v_head_dim
    q,                        \* the projected query, before the split
    kv,                       \* the up-projected key/value latent, before the split
    q_pe,                     \* positional slice of the query
    k_pe,                     \* positional slice of the key (one shared head)
    cos,                      \* position_embeddings[0]
    sin,                      \* position_embeddings[1]
    theta,                    \* the angles the tables were made from (quarter turns)
    rotated,                  \* <<q_embed, k_embed>> of the last rotary call
    query_states,             \* the assembled query buffer
    key_states,               \* the assembled key buffer
    value_states,
    attention_interface,      \* the kernel selected
    kernel_calls,             \* history: the kernels invoked by this call
    warnings,                 \* history: number of warnings emitted
    attn_output

gate_vars == <<scores, e_score_correction_bias, norm_topk_prob, scores_for_choice,
               group_idx, prev_decision>>
moe_vars == <<hidden_states, experts, tokens_per_expert, sorted_indices, sorted_tokens,
              expert_idx, current_pos, expert_outputs, invoked, y, prev_output>>

config_vars == <<attn_implementation, output_attentions, qk_nope_head_dim,
                 qk_rope_head_dim, v_head_dim>>
rot_vars == <<q_pe, k_pe, cos, sin, theta, rotated>>
attn_vars == <<q, kv, query_states, key_states, value_states, attention_interface,
               kernel_calls, warnings, attn_output>>

vars == <<pc, topk_indices, topk_weights, gate_vars, moe_vars, config_vars, rot_vars,
          attn_vars>>

None == "none"

(***************************************************************************)
(* Generic helpers                                                         *)
(***************************************************************************)
RECURSIVE SumSet(_, _)
SumSet(f, S) ==
    IF S = {} THEN 0
    ELSE LET x == CHOOSE z \in S : TRUE IN f[x] + SumSet(f, S \ {x})

\* A tensor of length n as a function over 0..n-1.
Range(n) == 0..(n - 1)

\* All orders in which the elements of S can be returned: injective
\* functions from 0..|S|-1 onto S.
Orders(S) ==
    {s \in [Range(Cardinality(S)) -> S] :
        \A i, j \in Range(Cardinality(S)) : i # j => s[i] # s[j]}

\* Exact rationals <<n, d>> with d > 0.
RatEq(a, b) == a[1] * b[2] = b[1] * a[2]
RatAdd(a, b) == <<a[1] * b[2] + b[1] * a[2], a[2] * b[2]>>

RECURSIVE RatSum(_, _)
RatSum(w, S) ==
    IF S = {} THEN <<0, 1>>
    ELSE LET x == CHOOSE z \in S : TRUE IN RatAdd(w[x], RatSum(w, S \ {x}))

(***************************************************************************)
(* MoEGate: configuration (MoEGate.__init__)                               *)
(***************************************************************************)
n_routed_experts == 4
n_group == 2
topk_group == 1
top_k == 2
routed_scaling_factor == 2
\* the 1e-20 of the denominator, in score units
Epsilon == 1

\* bound of the enumerated correction biases
MaxBias == 1

Experts == Range(n_routed_experts)
Groups == Range(n_group)
GroupSize == n_routed_experts \div n_group
GroupOf(e) == e \div GroupSize
ExpertsOf(g) == {e \in Experts : GroupOf(e) = g}

\* Sigmoid scores are positive: one and two units (scores of the order of
\* the epsilon) and a score that is large against the epsilon.
ScoreVals == {1, 2, 100}
\* The bias is positive, zero or negative, in steps of two units.
BiasVals == {2 * b : b \in (0 - MaxBias)..MaxBias}

\* torch.topk(x, k, sorted=False)[1] over the index set dom: any k indices
\* none of which is smaller than an index left out (ties are broken in an
\* implementation-defined way).
TopkSets(x, dom, k) ==
    {S \in SUBSET dom :
        /\ Cardinality(S) = k
        /\ \A i \in S : \A j \in dom \ S : x[i] >= x[j]}

\* scores_for_choice.view(-1, n_group, group size).topk(2, dim=-1)[0].sum(dim=-1)
GroupScores(sfc) ==
    [g \in Groups |->
        LET top2 == CHOOSE S \in TopkSets(sfc, ExpertsOf(g), 2) : TRUE
        IN SumSet(sfc, top2)]

\* scores.view(-1, n_routed_experts) + e_score_correction_bias.unsqueeze(0)
BiasAdjust(sc, bias) == [e \in Experts |-> sc[e] + bias[e]]

\* group_mask.scatter_(1, group_idx, 1) expanded to the experts, then
\* scores_for_choice.masked_fill(~score_mask.bool(), 0.0)
MaskedFill(sfc, gidx) ==
    [e \in Experts |-> IF GroupOf(e) \in gidx THEN sfc[e] ELSE 0]

\* faulty variant: the weights gathered from the bias-adjusted scores
GatherAdjusted(sc, sfc, idx) == [k \in DOMAIN idx |-> <<sfc[idx[k]], 1>>]

\* scores.gather(1, topk_indices): the weight source
GatherWeights(sc, sfc, idx) == [k \in DOMAIN idx |-> <<sc[idx[k]], 1>>]

\* faulty variant: the scaling factor forgotten after the normalisation
NormNoScale(w, norm) ==
    LET total == RatSum(w, DOMAIN w)
        denominator == RatAdd(total, <<Epsilon, 1>>)
    IN IF norm
       THEN [k \in DOMAIN w |-> <<w[k][1] * denominator[2], w[k][2] * denominator[1]>>]
       ELSE [k \in DOMAIN w |-> <<w[k][1] * routed_scaling_factor, w[k][2]>>]

\* lines 132-135: optional normalisation, then the scaling factor
NormAndScale(w, norm) ==
    LET total == RatSum(w, DOMAIN w)
        denominator == RatAdd(total, <<Epsilon, 1>>)
        normed == IF norm
                  THEN [k \in DOMAIN w |->
                          <<w[k][1] * denominator[2], w[k][2] * denominator[1]>>]
                  ELSE w
    IN [k \in DOMAIN w |-> <<normed[k][1] * routed_scaling_factor, normed[k][2]>>]

\* The state of the attention block while another component is being called.
AttnIdle ==
    /\ attn_implementation = None
    /\ output_attentions = None
    /\ qk_nope_head_dim = None
    /\ qk_rope_head_dim = None
    /\ v_head_dim = None
    /\ q = None
    /\ kv = None
    /\ q_pe = None
    /\ k_pe = None
    /\ cos = None
    /\ sin = None
    /\ theta = None
    /\ rotated = None
    /\ query_states = None
    /\ key_states = None
    /\ value_states = None
    /\ attention_interface = None
    /\ kernel_calls = None
    /\ warnings = None
    /\ attn_output = None

\* The state of the MoE block while another component is being called.
MoeIdle ==
    /\ hidden_states = None
    /\ experts = None
    /\ tokens_per_expert = None
    /\ sorted_indices = None
    /\ sorted_tokens = None
    /\ expert_idx = None
    /\ current_pos = None
    /\ expert_outputs = None
    /\ invoked = None
    /\ y = None
    /\ prev_output = None

GateInit ==
    /\ pc = "gate"
    /\ scores \in [Experts -> ScoreVals]
    /\ e_score_correction_bias \in [Experts -> BiasVals]
    /\ norm_topk_prob \in BOOLEAN
    /\ scores_for_choice = None
    /\ group_idx = None
    /\ topk_indices = None
    /\ topk_weights = None
    /\ prev_decision = <<>>

\* lines 114-123: bias-adjusted scores, group scores, the selected groups
SelectGroups ==
    /\ pc = "gate"
    /\ LET sfc == BiasAdjust(scores, e_score_correction_bias)
       IN /\ scores_for_choice' = sfc
          /\ group_idx' \in TopkSets(GroupScores(sfc), Groups, topk_group)
    /\ pc' = "groups"
    /\ UNCHANGED <<scores, e_score_correction_bias, norm_topk_prob, topk_indices,
                   topk_weights, prev_decision, moe_vars, config_vars, rot_vars, attn_vars>>

\* lines 124-130: mask the other groups, take the top_k experts
SelectExperts ==
    /\ pc = "groups"
    /\ LET masked == MaskedFill(scores_for_choice, group_idx)
       IN /\ scores_for_choice' = masked
          /\ \E S \in TopkSets(masked, Experts, top_k) :
                \E row \in Orders(S) : topk_indices' = [t \in Range(1) |-> row]
    /\ pc' = "experts"
    /\ UNCHANGED <<scores, e_score_correction_bias, norm_topk_prob, group_idx,
                   topk_weights, prev_decision, moe_vars, config_vars, rot_vars, attn_vars>>

\* lines 131-136: gather the weights, normalise, scale, return
ComputeWeights ==
    /\ pc = "experts"
    /\ topk_weights' =
          [t \in Range(1) |->
              NormAndScale(GatherWeights(scores, scores_for_choice, topk_indices[t]),
                           norm_topk_prob)]
    /\ pc' = "returned"
    /\ UNCHANGED <<scores, e_score_correction_bias, norm_topk_prob, scores_for_choice,
                   group_idx, topk_indices, prev_decision, moe_vars, config_vars, rot_vars, attn_vars>>

GateNext == SelectGroups \/ SelectExperts \/ ComputeWeights

InitGate == GateInit /\ MoeIdle /\ AttnIdle

SpecGate == InitGate /\ [][GateNext]_vars

\* The set of experts a row of indices names, and the weight of each.
IndexSet(row) == {row[k] : k \in DOMAIN row}
WeightOf(e, idxrow, wrow) == wrow[CHOOSE k \in DOMAIN idxrow : idxrow[k] = e]

\* The gate is called again on the same hidden states after the correction
\* bias (an nn.Parameter, line 107) has been given other values.
Rebias ==
    /\ pc = "returned"
    /\ prev_decision = <<>>
    /\ prev_decision' =
          <<[selected |-> IndexSet(topk_indices[0]),
             weight |-> [e \in IndexSet(topk_indices[0]) |->
                           WeightOf(e, topk_indices[0], topk_weights[0])]]>>
    /\ e_score_correction_bias' \in [Experts -> BiasVals]
    /\ e_score_correction_bias' # e_score_correction_bias
    /\ scores_for_choice' = None
    /\ group_idx' = None
    /\ topk_indices' = None
    /\ topk_weights' = None
    /\ pc' = "gate"
    /\ UNCHANGED <<scores, norm_topk_prob, moe_vars, config_vars, rot_vars, attn_vars>>

GateBiasNext == GateNext \/ Rebias

SpecGateBias == InitGate /\ [][GateBiasNext]_vars

(***************************************************************************)
(* Properties of the gate                                                  *)
(***************************************************************************)
\* The sum of the raw sigmoid scores at the selected indices.
SelectedScoreSum == SumSet(scores, IndexSet(topk_indices[0]))
ReturnedWeightSum == RatSum(topk_weights[0], DOMAIN topk_weights[0])
\* |a - b| <= b / 100 for a rational a = <<n, d>> and an integer b
WithinTolerance(a, b) ==
    LET diff == a[1] - b * a[2]
    IN 100 * (IF diff < 0 THEN 0 - diff ELSE diff) <= b * a[2]

\* C1: the gate returns exactly top_k pairwise-distinct expert indices, and
\* every returned index belongs to one of the selected groups, whatever the
\* scores and the (positive, zero or negative) correction bias.
C1_TopkInSelectedGroups ==
    pc = "returned" =>
        /\ DOMAIN topk_indices[0] = Range(top_k)
        /\ Cardinality(IndexSet(topk_indices[0])) = top_k
        /\ \A k \in DOMAIN topk_indices[0] : GroupOf(topk_indices[0][k]) \in group_idx

\* The part of C1 the code keeps: top_k pairwise-distinct indices.
C1_Distinct ==
    pc = "returned" =>
        /\ DOMAIN topk_indices[0] = Range(top_k)
        /\ Cardinality(IndexSet(topk_indices[0])) = top_k

\* C3 as stated: the returned weights sum to routed_scaling_factor (within
\* a tolerance of one percent) when the normalisation is enabled, and to
\* routed_scaling_factor times the raw score sum when it is disabled.
C3_SumIsScalingFactor ==
    pc = "returned" =>
        IF norm_topk_prob
        THEN WithinTolerance(ReturnedWeightSum, routed_scaling_factor)
        ELSE RatEq(ReturnedWeightSum, <<routed_scaling_factor * SelectedScoreSum, 1>>)

\* C3 amended: with the normalisation the weights sum to
\* routed_scaling_factor * S / (S + epsilon), S the raw score sum at the
\* selected indices, which is within tolerance of routed_scaling_factor
\* once S is at least 99 epsilon; without it they sum to
\* routed_scaling_factor * S.
C3_SumWithEpsilon ==
    pc = "returned" =>
        IF norm_topk_prob
        THEN /\ RatEq(ReturnedWeightSum,
                      <<routed_scaling_factor * SelectedScoreSum,
                        SelectedScoreSum + Epsilon>>)
             /\ (SelectedScoreSum >= 99 * Epsilon
                    => WithinTolerance(ReturnedWeightSum, routed_scaling_factor))
        ELSE RatEq(ReturnedWeightSum, <<routed_scaling_factor * SelectedScoreSum, 1>>)

\* a normalised row whose raw scores are of the order of the epsilon
C3_Witness ==
    /\ pc = "returned"
    /\ norm_topk_prob
    /\ SelectedScoreSum = 3
    /\ ~WithinTolerance(ReturnedWeightSum, routed_scaling_factor)

\* C4: two correction biases that lead to the same selected index set give
\* every selected expert the same weight: the weight is read from the raw
\* scores.
C4_BiasOnlySelects ==
    (pc = "returned" /\ prev_decision # <<>>) =>
        (IndexSet(topk_indices[0]) = prev_decision[1].selected =>
            \A e \in IndexSet(topk_indices[0]) :
                WeightOf(e, topk_indices[0], topk_weights[0]) = prev_decision[1].weight[e])

\* the second call, under another bias, selected the same experts, and one
\* of them has a non-zero bias
C4_Witness ==
    /\ pc = "returned"
    /\ prev_decision # <<>>
    /\ IndexSet(topk_indices[0]) = prev_decision[1].selected
    /\ \E e \in IndexSet(topk_indices[0]) : e_score_correction_bias[e] # 0

(***************************************************************************)
(* DeepseekV3MoE: forward and moe_infer                                    *)
(***************************************************************************)
\* bound of the number of token rows of a call (batch * sequence)
MaxTokens == 2

\* The weights of a decision, in weight units: pairwise different over the
\* (token, slot) entries, so that a weight applied to the wrong entry shows.
WeightTable(T) == [t \in Range(T) |-> [k \in Range(top_k) |-> 1 + t * top_k + k]]

\* DeepseekV3MLP.forward on one row: a row-wise map that depends on the
\* expert's own parameters, here the integer p.
ExpertMLP(p, x) == 10 * p + x
\* self.shared_experts, an MLP with its own parameters
SharedMLP(x) == 7 * x + 3

Len0(x) == Cardinality(DOMAIN x)
\* x[a:b] of a 1-d tensor (Python clamps the slice to the tensor)
Slice(x, a, b) ==
    LET hi == IF b < Len0(x) THEN b ELSE Len0(x)
    IN [i \in Range(IF hi > a THEN hi - a ELSE 0) |-> x[a + i]]
Cat0(x, z) ==
    [i \in Range(Len0(x) + Len0(z)) |-> IF i < Len0(x) THEN x[i] ELSE z[i - Len0(x)]]
\* torch.cat(list, dim=0), or an empty tensor for the empty list
RECURSIVE CatAll(_)
CatAll(list) == IF list = <<>> THEN <<>> ELSE Cat0(Head(list), CatAll(Tail(list)))

\* self.experts[expert_idx]
ExpertAt(pool, e) == pool[e + 1]
\* expert(expert_tokens): the expert applied to every row of its batch
ApplyExpert(p, rows) == [i \in DOMAIN rows |-> ExpertMLP(p, rows[i])]

NumTopk(idx) == Len0(idx[0])
\* topk_indices.view(-1)
Flatten(idx) ==
    [f \in Range(Len0(idx) * NumTopk(idx)) |-> idx[f \div NumTopk(idx)][f % NumTopk(idx)]]

\* lines 183-185: scatter_ writes a 1 at every selected expert of a row,
\* the column sums are the per-expert counts
TokensPerExpert(idx, num_experts) ==
    LET expert_counts ==
            [t \in DOMAIN idx |->
                [e \in Range(num_experts) |->
                    IF \E k \in DOMAIN idx[t] : idx[t][k] = e THEN 1 ELSE 0]]
    IN [e \in Range(num_experts) |->
            SumSet([t \in DOMAIN idx |-> expert_counts[t][e]], DOMAIN idx)]

\* argsort() of line 188 (not stable): every permutation that puts the
\* flattened expert indices in ascending order, built for one expert after
\* the other from its entries in any order
RECURSIVE ArgSortsFrom(_, _)
ArgSortsFrom(flat, e) ==
    IF \A f \in DOMAIN flat : flat[f] < e THEN {<<>>}
    ELSE {Cat0(a, b) : a \in Orders({f \in DOMAIN flat : flat[f] = e}),
                       b \in ArgSortsFrom(flat, e + 1)}
ArgSorts(flat) == ArgSortsFrom(flat, 0)

\* faulty variant: the end of the segment taken one entry after its start
NextPosOne(pos, num_tokens) == pos + 1
\* line 200
NextPos(pos, num_tokens) == pos + num_tokens

\* faulty variant: no expert is skipped
SkipNever(num_tokens) == FALSE
\* line 197
SkipExpert(num_tokens) == num_tokens = 0

\* faulty variant: the outputs gathered through sorted_indices instead of scattered
ReorderGather(sidx, outs) == [f \in DOMAIN outs |-> outs[sidx[f]]]
\* lines 210-211: reordered_outputs[sorted_indices] = expert_outputs
Reorder(sidx, outs) ==
    [f \in DOMAIN outs |-> outs[CHOOSE i \in DOMAIN sidx : sidx[i] = f]]

\* lines 214-216: view(batch_size, num_topk, -1), weights @ outputs, sum
WeightedSum(w, reordered) ==
    [t \in DOMAIN w |->
        SumSet([k \in DOMAIN w[t] |-> w[t][k] * reordered[t * Len0(w[t]) + k]],
               DOMAIN w[t])]

\* the gate decisions of T tokens with pairwise-distinct experts per token
IndexRows(num_experts) ==
    {r \in [Range(top_k) -> Range(num_experts)] :
        \A i, j \in Range(top_k) : i # j => r[i] # r[j]}

GateIdle ==
    /\ scores = None
    /\ e_score_correction_bias = None
    /\ norm_topk_prob = None
    /\ scores_for_choice = None
    /\ group_idx = None
    /\ prev_decision = None

\* A call of forward on T token rows; the rows are pairwise different so
\* that a row or an output in the wrong place shows.
MoeInit ==
    /\ pc = "forward"
    /\ \E T \in 1..MaxTokens : hidden_states = [t \in Range(T) |-> t + 1]
    /\ experts = [e \in 1..n_routed_experts |-> e]
    /\ topk_indices = None
    /\ topk_weights = None
    /\ tokens_per_expert = None
    /\ sorted_indices = None
    /\ sorted_tokens = None
    /\ expert_idx = None
    /\ current_pos = None
    /\ expert_outputs = None
    /\ invoked = <<>>
    /\ y = None
    /\ prev_output = <<>>

\* line 160: topk_indices, topk_weights = self.gate(hidden_states); any
\* decision with top_k pairwise-distinct experts per token
CallGate ==
    /\ pc = "forward"
    /\ topk_indices' \in [DOMAIN hidden_states -> IndexRows(Len(experts))]
    /\ topk_weights' = WeightTable(Len0(hidden_states))
    /\ pc' = "count"
    /\ UNCHANGED <<gate_vars, moe_vars, config_vars, rot_vars, attn_vars>>

\* lines 179-185
CountTokens ==
    /\ pc = "count"
    /\ tokens_per_expert' = TokensPerExpert(topk_indices, Len(experts))
    /\ pc' = "sort"
    /\ UNCHANGED <<config_vars, rot_vars, attn_vars, topk_indices, topk_weights, gate_vars, hidden_states, experts,
                   sorted_indices, sorted_tokens, expert_idx, current_pos,
                   expert_outputs, invoked, y, prev_output>>

\* lines 188-194
SortTokens ==
    /\ pc = "sort"
    /\ \E p \in ArgSorts(Flatten(topk_indices)) :
          /\ sorted_indices' = p
          /\ sorted_tokens' =
                [i \in DOMAIN p |-> hidden_states[p[i] \div NumTopk(topk_indices)]]
    /\ expert_outputs' = <<>>
    /\ current_pos' = 0
    /\ expert_idx' = 0
    /\ invoked' = <<>>
    /\ pc' = "loop"
    /\ UNCHANGED <<config_vars, rot_vars, attn_vars, topk_indices, topk_weights, gate_vars, hidden_states, experts,
                   tokens_per_expert, y, prev_output>>

\* lines 196-198: an iteration for an expert without entries
ExpertSkip ==
    /\ pc = "loop"
    /\ expert_idx < Len0(tokens_per_expert)
    /\ SkipExpert(tokens_per_expert[expert_idx])
    /\ expert_idx' = expert_idx + 1
    /\ UNCHANGED <<config_vars, rot_vars, attn_vars, pc, topk_indices, topk_weights, gate_vars, hidden_states, experts,
                   tokens_per_expert, sorted_indices, sorted_tokens, current_pos,
                   expert_outputs, invoked, y, prev_output>>

\* lines 196-204: an iteration that calls the expert on its segment
ExpertCall ==
    /\ pc = "loop"
    /\ expert_idx < Len0(tokens_per_expert)
    /\ ~SkipExpert(tokens_per_expert[expert_idx])
    /\ LET next_pos == NextPos(current_pos, tokens_per_expert[expert_idx])
           expert == ExpertAt(experts, expert_idx)
           expert_tokens == Slice(sorted_tokens, current_pos, next_pos)
       IN /\ expert_outputs' = Append(expert_outputs, ApplyExpert(expert, expert_tokens))
          /\ invoked' = Append(invoked, [expert |-> expert_idx, from |-> current_pos,
                                         to |-> next_pos])
          /\ current_pos' = next_pos
    /\ expert_idx' = expert_idx + 1
    /\ UNCHANGED <<config_vars, rot_vars, attn_vars, pc, topk_indices, topk_weights, gate_vars, hidden_states, experts,
                   tokens_per_expert, sorted_indices, sorted_tokens, y, prev_output>>

\* lines 207-217 and 162-164: concatenate, scatter back, weigh, sum over
\* the slots, add the shared expert's output, return
Combine ==
    /\ pc = "loop"
    /\ expert_idx = Len0(tokens_per_expert)
    /\ LET outs == CatAll(expert_outputs)
           reordered_outputs == Reorder(sorted_indices, outs)
           moe_output == WeightedSum(topk_weights, reordered_outputs)
       IN y' = [t \in DOMAIN hidden_states |-> moe_output[t] + SharedMLP(hidden_states[t])]
    /\ pc' = "done"
    /\ UNCHANGED <<config_vars, rot_vars, attn_vars, topk_indices, topk_weights, gate_vars, hidden_states, experts,
                   tokens_per_expert, sorted_indices, sorted_tokens, expert_idx,
                   current_pos, expert_outputs, invoked, prev_output>>

\* the locals of moe_infer and the result, before a call
FreshLocals ==
    /\ tokens_per_expert' = None
    /\ sorted_indices' = None
    /\ sorted_tokens' = None
    /\ expert_idx' = None
    /\ current_pos' = None
    /\ expert_outputs' = None
    /\ invoked' = <<>>
    /\ y' = None

\* topk_indices after the expert at index p has been added (shift = 1) or
\* removed (shift = -1): the other experts keep their entries
Renumber(idx, p, shift) ==
    [t \in DOMAIN idx |->
        [k \in DOMAIN idx[t] |-> IF idx[t][k] >= p THEN idx[t][k] + shift ELSE idx[t][k]]]

\* lines 147-152 with one more expert in the list, at index p, that no
\* entry selects; the same tokens are then dispatched again
AddEmptyExpert ==
    /\ pc = "done"
    /\ prev_output = <<>>
    /\ \E p \in 0..Len(experts) :
          /\ experts' = SubSeq(experts, 1, p) \o <<Len(experts) + 1>>
                            \o SubSeq(experts, p + 1, Len(experts))
          /\ topk_indices' = Renumber(topk_indices, p, 1)
    /\ prev_output' = <<y>>
    /\ FreshLocals
    /\ pc' = "count"
    /\ UNCHANGED <<config_vars, rot_vars, attn_vars, topk_weights, gate_vars, hidden_states>>

\* lines 147-152 with an expert that no entry selects taken out of the list
RemoveEmptyExpert ==
    /\ pc = "done"
    /\ prev_output = <<>>
    /\ \E p \in Range(Len(experts)) :
          /\ \A f \in DOMAIN Flatten(topk_indices) : Flatten(topk_indices)[f] # p
          /\ experts' = SubSeq(experts, 1, p) \o SubSeq(experts, p + 2, Len(experts))
          /\ topk_indices' = Renumber(topk_indices, p, 0 - 1)
    /\ prev_output' = <<y>>
    /\ FreshLocals
    /\ pc' = "count"
    /\ UNCHANGED <<config_vars, rot_vars, attn_vars, topk_weights, gate_vars, hidden_states>>

MoeNext == CallGate \/ CountTokens \/ SortTokens \/ ExpertSkip \/ ExpertCall \/ Combine

InitMoE == MoeInit /\ GateIdle /\ AttnIdle

SpecMoE == InitMoE /\ [][MoeNext]_vars

MoePoolNext == MoeNext \/ AddEmptyExpert \/ RemoveEmptyExpert

SpecMoEPool == InitMoE /\ [][MoePoolNext]_vars

(***************************************************************************)
(* Properties of the dispatch                                              *)
(***************************************************************************)
LoopDone == (pc = "loop" /\ expert_idx = Len0(tokens_per_expert)) \/ pc = "done"
NumEntries == Len0(hidden_states) * top_k
\* the flattened (token, slot) entries that select expert e
EntriesOf(e) == {f \in DOMAIN Flatten(topk_indices) : Flatten(topk_indices)[f] = e}
\* the entries in a segment of the sorted list
Segment(r) == {sorted_indices[i] : i \in r.from..(r.to - 1)}

\* C2: forward returns, for each token t, the sum over the slots k of
\* topk_weights[t][k] * experts[topk_indices[t][k]](hidden[t]), plus
\* shared_experts(hidden[t]), in the original token order.
C2_ForwardIsWeightedSum ==
    pc = "done" =>
        /\ DOMAIN y = DOMAIN hidden_states
        /\ \A t \in DOMAIN hidden_states :
              y[t] = SumSet([k \in Range(top_k) |->
                                topk_weights[t][k] *
                                ExpertMLP(ExpertAt(experts, topk_indices[t][k]),
                                          hidden_states[t])],
                            Range(top_k))
                     + SharedMLP(hidden_states[t])

\* two tokens share an expert, their weights differ and the sort moved entries
C2_Witness ==
    /\ pc = "done"
    /\ Len0(hidden_states) = 2
    /\ \E e \in Range(Len(experts)) : tokens_per_expert[e] = 2
    /\ \E i \in DOMAIN sorted_indices : sorted_indices[i] # i
    /\ topk_weights[0][0] # topk_weights[0][1]

\* C9: an expert that no (token, slot) entry selects is never invoked, and
\* the output is unchanged when such an expert is added to or removed from
\* the pool.
C9_EmptyExpertIsInert ==
    pc \in {"loop", "done"} =>
        /\ \A i \in DOMAIN invoked : EntriesOf(invoked[i].expert) # {}
        /\ (pc = "done" /\ prev_output # <<>>) => y = prev_output[1]

\* the pool got an expert without entries in front of an expert with entries
C9_Witness ==
    /\ pc = "done"
    /\ prev_output # <<>>
    /\ Len(experts) = n_routed_experts + 1
    /\ \E e \in Range(Len(experts)) :
          /\ ExpertAt(experts, e) = n_routed_experts + 1
          /\ \E e2 \in Range(Len(experts)) : e2 > e /\ tokens_per_expert[e2] > 0
          /\ \E e1 \in Range(Len(experts)) : e1 < e /\ tokens_per_expert[e1] > 0

\* the pool lost an expert without entries
C9_WitnessRemoved ==
    /\ pc = "done"
    /\ prev_output # <<>>
    /\ Len(experts) = n_routed_experts - 1

\* C10: the segments [current_pos, next_pos) partition the T * top_k
\* entries: the counts sum to T * top_k, the segment of expert e holds
\* exactly the entries that select e, each expert with an entry is invoked
\* exactly once, and no token row is twice in a segment.
C10_SegmentsPartition ==
    LoopDone =>
        /\ SumSet(tokens_per_expert, DOMAIN tokens_per_expert) = NumEntries
        /\ \A i \in DOMAIN invoked :
              /\ invoked[i].from = (IF i = 1 THEN 0 ELSE invoked[i - 1].to)
              /\ invoked[i].from < invoked[i].to
              /\ invoked[i].to <= NumEntries
              /\ Segment(invoked[i]) = EntriesOf(invoked[i].expert)
              /\ \A a, b \in invoked[i].from..(invoked[i].to - 1) :
                    a # b => sorted_indices[a] \div top_k # sorted_indices[b] \div top_k
        /\ invoked # <<>> /\ invoked[Len(invoked)].to = NumEntries
        /\ \A e \in Range(Len(experts)) :
              EntriesOf(e) # {} =>
                  Cardinality({i \in DOMAIN invoked : invoked[i].expert = e}) = 1

\* an expert with the entries of two tokens, and an expert with none before it
C10_Witness ==
    /\ LoopDone
    /\ \E i \in DOMAIN invoked :
          /\ invoked[i].to - invoked[i].from = 2
          /\ \E e \in Range(Len(experts)) :
                e < invoked[i].expert /\ tokens_per_expert[e] = 0

(***************************************************************************)
(* apply_rotary_pos_emb                                                    *)
(***************************************************************************)
\* bound of the number of channel pairs of a positional slice
MaxPairs == 2

\* values of the rotated channels
ChannelVals == {1, 2}

\* faulty variant: the pair axis not transposed: the channels keep their order
NoTranspose(m) == m
\* x.view(d // 2, 2) of a row of d channels
ViewPairs(x) == [i \in Range(Len0(x) \div 2) |-> [j \in Range(2) |-> x[2 * i + j]]]
\* .transpose(4, 3) of the last two axes
Transpose(m) == [j \in DOMAIN m[0] |-> [i \in DOMAIN m |-> m[i][j]]]
\* .reshape(d) of a matrix in row-major order
ReshapeRow(m) ==
    [n \in Range(Len0(m) * Len0(m[0])) |-> m[n \div Len0(m[0])][n % Len0(m[0])]]
\* lines 67-68 and 70-71 on one row
Deinterleave(x) == ReshapeRow(Transpose(ViewPairs(x)))

\* rotate_half of the Llama model: cat((-x2, x1)) of the two halves
rotate_half(x) ==
    LET half == Len0(x) \div 2
    IN [i \in DOMAIN x |-> IF i < half THEN 0 - x[i + half] ELSE x[i - half]]

\* lines 73-74 on one row: (x * cos) + (rotate_half(x) * sin)
RotaryFormula(x, c, s) == [i \in DOMAIN x |-> x[i] * c[i] + rotate_half(x)[i] * s[i]]

\* lines 64-75 on one row
RotateRow(x, c, s) == RotaryFormula(Deinterleave(x), c, s)

\* apply_rotary_pos_emb(q, k, cos, sin): cos and sin broadcast over the heads
apply_rotary_pos_emb(qq, kk, c, s) ==
    <<[h \in DOMAIN qq |-> RotateRow(qq[h], c, s)],
      [h \in DOMAIN kk |-> RotateRow(kk[h], c, s)]>>

\* The rotary tables of an angle vector, one angle per channel pair, as the
\* rotary embedding builds them (emb = cat(freqs, freqs)).  Angles are
\* multiples of a quarter turn, whose cosine and sine are integers.
QuarterCos(a) == CASE a % 4 = 0 -> 1 [] a % 4 = 1 -> 0 [] a % 4 = 2 -> 0 - 1 [] OTHER -> 0
QuarterSin(a) == CASE a % 4 = 0 -> 0 [] a % 4 = 1 -> 1 [] a % 4 = 2 -> 0 [] OTHER -> 0 - 1
CosTable(th) == [i \in Range(2 * Len0(th)) |-> QuarterCos(th[i % Len0(th)])]
SinTable(th) == [i \in Range(2 * Len0(th)) |-> QuarterSin(th[i % Len0(th)])]
Negated(th) == [i \in DOMAIN th |-> (4 - th[i]) % 4]

RotaryInit ==
    /\ pc = "rotary"
    /\ \E pairs \in 1..MaxPairs :
          /\ theta \in [Range(pairs) -> Range(4)]
          /\ q_pe \in [Range(1) -> [Range(2 * pairs) -> ChannelVals]]
          /\ k_pe \in [Range(1) -> [Range(2 * pairs) -> ChannelVals]]
    /\ cos = CosTable(theta)
    /\ sin = SinTable(theta)
    /\ rotated = None
    /\ attn_implementation = None
    /\ output_attentions = None
    /\ qk_nope_head_dim = None
    /\ qk_rope_head_dim = None
    /\ v_head_dim = None
    /\ q = None
    /\ kv = None
    /\ query_states = None
    /\ key_states = None
    /\ value_states = None
    /\ attention_interface = None
    /\ kernel_calls = None
    /\ warnings = None
    /\ attn_output = None

\* the call with the tables of theta
RotateBy ==
    /\ pc = "rotary"
    /\ rotated' = apply_rotary_pos_emb(q_pe, k_pe, cos, sin)
    /\ pc' = "rotated"
    /\ UNCHANGED <<topk_indices, topk_weights, gate_vars, moe_vars, config_vars,
                   q_pe, k_pe, cos, sin, theta, attn_vars>>

\* the call on the result with the tables of -theta
RotateBack ==
    /\ pc = "rotated"
    /\ cos' = CosTable(Negated(theta))
    /\ sin' = SinTable(Negated(theta))
    /\ rotated' = apply_rotary_pos_emb(rotated[1], rotated[2], cos', sin')
    /\ pc' = "back"
    /\ UNCHANGED <<topk_indices, topk_weights, gate_vars, moe_vars, config_vars,
                   q_pe, k_pe, theta, attn_vars>>

RotaryNext == RotateBy \/ RotateBack

InitRotary == RotaryInit /\ GateIdle /\ MoeIdle /\ topk_indices = None /\ topk_weights = None

SpecRotary == InitRotary /\ [][RotaryNext]_vars

\* the channels of x with the even ones first: [x0, x2, ..., x1, x3, ...]
EvenThenOdd(x) ==
    LET half == Len0(x) \div 2
    IN [i \in DOMAIN x |-> IF i < half THEN x[2 * i] ELSE x[2 * (i - half) + 1]]

\* C5 as stated: rotating by theta and then by -theta, both through
\* apply_rotary_pos_emb, returns the original query and key slices.
C5_RoundTrip ==
    pc = "back" => (rotated[1] = q_pe /\ rotated[2] = k_pe)

\* C5 amended: undoing the rotation of apply_rotary_pos_emb with the
\* rotate-half formula at -theta (no second pair de-interleave) returns the
\* slice with its even channels first; a second call of
\* apply_rotary_pos_emb with -theta returns the original slice when d = 2.
C5_RoundTripUpToInterleave ==
    /\ pc = "rotated" =>
          LET c == CosTable(Negated(theta))
              s == SinTable(Negated(theta))
          IN /\ \A h \in DOMAIN q_pe :
                   RotaryFormula(rotated[1][h], c, s) = EvenThenOdd(q_pe[h])
             /\ \A h \in DOMAIN k_pe :
                   RotaryFormula(rotated[2][h], c, s) = EvenThenOdd(k_pe[h])
    /\ (pc = "back" /\ Len0(theta) = 1) => (rotated[1] = q_pe /\ rotated[2] = k_pe)

\* a slice of four channels that the two calls do not give back
C5_Witness ==
    /\ pc = "back"
    /\ Len0(theta) = 2
    /\ rotated[1] # q_pe
    /\ rotated[2] # k_pe

(***************************************************************************)
(* DeepseekV3Attention.forward, for one batch entry and one position,      *)
(* without a cache (past_key_value is None)                                *)
(***************************************************************************)
num_heads == 2
\* bounds of the enumerated head dimensions
MaxNope == 2
MaxValueDim == 4

\* the names under which a kernel is configured: "eager" and the keys of
\* ALL_ATTENTION_FUNCTIONS
AttnImplementations == {"eager", "sdpa", "flash_attention_2", "flex_attention"}

\* config.q_head_dim, which the configuration sets to the sum of the two
\* slice widths (the split of line 283 takes exactly these two widths)
q_head_dim == qk_nope_head_dim + qk_rope_head_dim

Heads == Range(num_heads)
\* x[..., lo:hi] of a [head][channel] tensor
Channels(x, lo, hi) == [h \in DOMAIN x |-> Slice(x[h], lo, hi)]

\* tensor.new_empty(heads, width): every cell holds whatever was in memory
\* (g) and has not been written
NewEmpty(width, g) == [h \in Heads |-> [c \in Range(width) |-> [val |-> g, writes |-> 0]]]

\* buf[:, :, :, lo:hi] = src, the source broadcast over the heads when it
\* has a single head
WriteSlice(buf, lo, hi, src) ==
    [h \in DOMAIN buf |->
        [c \in DOMAIN buf[h] |->
            IF lo <= c /\ c < hi
            THEN [val |-> src[IF Len0(src) = 1 THEN 0 ELSE h][c - lo],
                  writes |-> buf[h][c].writes + 1]
            ELSE buf[h][c]]]

\* faulty variant: the positional slice written at the front of the buffer
RopeRangeFront(nope, width) == <<0, width - nope>>
\* the channel ranges of lines 296/300 and 297/301
NopeRange(nope, width) == <<0, nope>>
RopeRange(nope, width) == <<nope, width>>

\* lines 295-297 and 299-301
Assemble(g, nope_part, rope_part) ==
    LET empty == NewEmpty(q_head_dim, g)
        a == NopeRange(qk_nope_head_dim, q_head_dim)
        b == RopeRange(qk_nope_head_dim, q_head_dim)
    IN WriteSlice(WriteSlice(empty, a[1], a[2], nope_part), b[1], b[2], rope_part)

\* F.pad(row, [0, n]): n zero channels appended, or -n channels cut off
\* when n is negative
FPad(row, n) ==
    IF n >= 0
    THEN [c \in Range(Len0(row) + n) |-> IF c < Len0(row) THEN row[c] ELSE 0]
    ELSE Slice(row, 0, Len0(row) + n)

\* lines 303 and 332
PadPath == attn_implementation = "flash_attention_2" /\ q_head_dim # v_head_dim

\* faulty variant: the registered kernel taken whatever the caller asks for
InterfaceNoFallback(impl, out_attn) == impl
\* lines 311-319: the kernel that will be called
SelectInterface(impl, out_attn) ==
    IF impl # "eager"
    THEN IF impl = "sdpa" /\ out_attn THEN "eager" ELSE impl
    ELSE "eager"

\* The attention kernels: for a single key position the softmax weight is
\* 1 and every kernel returns, per head, the value row it was given.
AttentionKernel(name, query, key, value) == [h \in DOMAIN value |-> value[h]]

\* attn_output.reshape(*input_shape, -1): the heads side by side
RECURSIVE ReshapeHeads(_, _)
ReshapeHeads(x, h) ==
    IF h = Len0(x) THEN <<>> ELSE Cat0(x[h], ReshapeHeads(x, h + 1))

\* o_proj is nn.Linear(num_heads * v_head_dim, hidden_size): it accepts
\* rows of exactly that width
OProjAccepts(row) == Len0(row) = num_heads * v_head_dim

AttnInit ==
    /\ pc = "attn"
    /\ attn_implementation \in AttnImplementations
    /\ output_attentions \in BOOLEAN
    /\ qk_nope_head_dim \in 1..MaxNope
    /\ v_head_dim \in 1..MaxValueDim
    /\ \E pairs \in 1..MaxPairs :
          /\ qk_rope_head_dim = 2 * pairs
          /\ theta \in [Range(pairs) -> Range(4)]
    /\ cos = CosTable(theta)
    /\ sin = SinTable(theta)
    \* the projections: pairwise different entries
    /\ q = [h \in Heads |-> [c \in Range(q_head_dim) |-> 100 + 10 * h + c]]
    /\ kv = [h \in Heads |-> [c \in Range(qk_nope_head_dim + v_head_dim) |-> 200 + 10 * h + c]]
    /\ k_pe = [h \in Range(1) |-> [c \in Range(qk_rope_head_dim) |-> 300 + c]]
    /\ q_pe = None
    /\ rotated = None
    /\ query_states = None
    /\ key_states = None
    /\ value_states = None
    /\ attention_interface = None
    /\ kernel_calls = <<>>
    /\ warnings = 0
    /\ attn_output = None

q_nope == Channels(q, 0, qk_nope_head_dim)
k_nope == Channels(kv, 0, qk_nope_head_dim)

\* lines 282-290: the projections are split
SplitProjections ==
    /\ pc = "attn"
    /\ q_pe' = Channels(q, qk_nope_head_dim, qk_nope_head_dim + qk_rope_head_dim)
    /\ value_states' = Channels(kv, qk_nope_head_dim, qk_nope_head_dim + v_head_dim)
    /\ pc' = "split"
    /\ UNCHANGED <<topk_indices, topk_weights, gate_vars, moe_vars, config_vars, k_pe, cos,
                   sin, theta, rotated, q, kv, query_states, key_states,
                   attention_interface, kernel_calls, warnings, attn_output>>

\* lines 292-293: rotated[1] and rotated[2] are q_pe and k_pe from here on
ApplyRotary ==
    /\ pc = "split"
    /\ rotated' = apply_rotary_pos_emb(q_pe, k_pe, cos, sin)
    /\ pc' = "rotated"
    /\ UNCHANGED <<topk_indices, topk_weights, gate_vars, moe_vars, config_vars, q_pe, k_pe,
                   cos, sin, theta, attn_vars>>

\* lines 295-297
AssembleQuery ==
    /\ pc = "rotated"
    /\ \E g \in {0, 0 - 1} : query_states' = Assemble(g, q_nope, rotated[1])
    /\ pc' = "query"
    /\ UNCHANGED <<topk_indices, topk_weights, gate_vars, moe_vars, config_vars, rot_vars,
                   q, kv, key_states, value_states, attention_interface, kernel_calls,
                   warnings, attn_output>>

\* lines 299-301
AssembleKey ==
    /\ pc = "query"
    /\ \E g \in {0, 0 - 1} : key_states' = Assemble(g, k_nope, rotated[2])
    /\ pc' = "key"
    /\ UNCHANGED <<topk_indices, topk_weights, gate_vars, moe_vars, config_vars, rot_vars,
                   q, kv, query_states, value_states, attention_interface, kernel_calls,
                   warnings, attn_output>>

\* lines 303-304
PadValue ==
    /\ pc = "key"
    /\ value_states' =
          IF PadPath
          THEN [h \in DOMAIN value_states |-> FPad(value_states[h], q_head_dim - v_head_dim)]
          ELSE value_states
    /\ pc' = "padded"
    /\ UNCHANGED <<topk_indices, topk_weights, gate_vars, moe_vars, config_vars, rot_vars,
                   q, kv, query_states, key_states, attention_interface, kernel_calls,
                   warnings, attn_output>>

\* lines 311-319
SelectKernel ==
    /\ pc = "padded"
    /\ attention_interface' = SelectInterface(attn_implementation, output_attentions)
    /\ warnings' = IF attn_implementation = "sdpa" /\ output_attentions
                   THEN warnings + 1 ELSE warnings
    /\ pc' = "selected"
    /\ UNCHANGED <<topk_indices, topk_weights, gate_vars, moe_vars, config_vars, rot_vars,
                   q, kv, query_states, key_states, value_states, kernel_calls,
                   attn_output>>

\* lines 321-330
CallKernel ==
    /\ pc = "selected"
    /\ kernel_calls' = Append(kernel_calls, attention_interface)
    /\ attn_output' = AttentionKernel(attention_interface, query_states, key_states,
                                      value_states)
    /\ pc' = "called"
    /\ UNCHANGED <<topk_indices, topk_weights, gate_vars, moe_vars, config_vars, rot_vars,
                   q, kv, query_states, key_states, value_states, attention_interface,
                   warnings>>

\* lines 332-333
TruncateOutput ==
    /\ pc = "called"
    /\ attn_output' = IF PadPath THEN Channels(attn_output, 0, v_head_dim) ELSE attn_output
    /\ pc' = "truncated"
    /\ UNCHANGED <<topk_indices, topk_weights, gate_vars, moe_vars, config_vars, rot_vars,
                   q, kv, query_states, key_states, value_states, attention_interface,
                   kernel_calls, warnings>>

\* lines 335-337: reshape, o_proj, return; o_proj raises on a row of
\* another width
OutputProjection ==
    /\ pc = "truncated"
    /\ attn_output' = ReshapeHeads(attn_output, 0)
    /\ pc' = IF OProjAccepts(attn_output') THEN "done" ELSE "error"
    /\ UNCHANGED <<topk_indices, topk_weights, gate_vars, moe_vars, config_vars, rot_vars,
                   q, kv, query_states, key_states, value_states, attention_interface,
                   kernel_calls, warnings>>

AttnNext ==
    \/ SplitProjections \/ ApplyRotary \/ AssembleQuery \/ AssembleKey \/ PadValue
    \/ SelectKernel \/ CallKernel \/ TruncateOutput \/ OutputProjection

InitAttn == AttnInit /\ GateIdle /\ MoeIdle /\ topk_indices = None /\ topk_weights = None

SpecAttn == InitAttn /\ [][AttnNext]_vars

(***************************************************************************)
(* Properties of the attention                                             *)
(***************************************************************************)
Assembled == pc \in {"key", "padded", "selected", "called", "truncated", "done", "error"}
KernelCalled == pc \in {"called", "truncated", "done", "error"}

\* C6: channels 0..qk_nope_head_dim-1 of every assembled query and key head
\* are the un-rotated q_nope and k_nope, channels qk_nope_head_dim..
\* q_head_dim-1 are the rotated positional slices (the one key slice shared
\* by the heads), and every channel has been written exactly once.
C6_DisjointSlices ==
    Assembled =>
        \A h \in Heads :
            /\ DOMAIN query_states[h] = Range(q_head_dim)
            /\ DOMAIN key_states[h] = Range(q_head_dim)
            /\ \A c \in Range(q_head_dim) :
                  /\ query_states[h][c].writes = 1
                  /\ key_states[h][c].writes = 1
                  /\ c < qk_nope_head_dim =>
                        /\ query_states[h][c].val = q[h][c]
                        /\ key_states[h][c].val = kv[h][c]
                  /\ c >= qk_nope_head_dim =>
                        /\ query_states[h][c].val =
                              RotateRow(q_pe[h], cos, sin)[c - qk_nope_head_dim]
                        /\ key_states[h][c].val =
                              RotateRow(k_pe[0], cos, sin)[c - qk_nope_head_dim]

\* a rotation that changes the positional slice, in a buffer of more than
\* one content channel
C6_Witness ==
    /\ Assembled
    /\ qk_nope_head_dim = 2
    /\ \E c \in Range(qk_rope_head_dim) : theta[c % Len0(theta)] # 0
    /\ \E c \in Range(q_head_dim) : query_states[0][c].val # q[0][c]

\* C7: with flash_attention_2 and q_head_dim # v_head_dim (larger or
\* smaller) the value is padded to width q_head_dim before the kernel call
\* and the kernel output is cut back to width v_head_dim: what enters
\* o_proj has width num_heads * v_head_dim and holds the value channels
\* without padding.
C7_PadTruncateSymmetry ==
    PadPath =>
        /\ pc \in {"padded", "selected"} =>
              \A h \in Heads : Len0(value_states[h]) = q_head_dim
        /\ pc = "truncated" =>
              \A h \in Heads :
                  attn_output[h] = Slice(kv[h], qk_nope_head_dim, qk_nope_head_dim + v_head_dim)
        /\ pc # "error"
        /\ pc = "done" => Len0(attn_output) = num_heads * v_head_dim

\* The part of C7 the code keeps: the case q_head_dim > v_head_dim.
C7_WhenQueryIsWider ==
    (PadPath /\ q_head_dim > v_head_dim) =>
        /\ pc \in {"padded", "selected"} =>
              \A h \in Heads : Len0(value_states[h]) = q_head_dim
        /\ pc = "truncated" =>
              \A h \in Heads :
                  attn_output[h] = Slice(kv[h], qk_nope_head_dim, qk_nope_head_dim + v_head_dim)
        /\ pc # "error"
        /\ pc = "done" => Len0(attn_output) = num_heads * v_head_dim

\* C8: exactly one kernel is invoked per call: the eager kernel when the
\* implementation is "eager" or is "sdpa" with output_attentions, the
\* kernel registered under the configured name otherwise; the sdpa fallback
\* warns and does not end in an error.
C8_KernelFallback ==
    LET fallback == attn_implementation = "sdpa" /\ output_attentions
    IN /\ ~KernelCalled => kernel_calls = <<>>
       /\ KernelCalled =>
             /\ Len(kernel_calls) = 1
             /\ kernel_calls[1] =
                   (IF attn_implementation = "eager" \/ fallback
                    THEN "eager" ELSE attn_implementation)
       /\ fallback =>
             /\ pc # "error"
             /\ pc \in {"selected", "called", "truncated", "done"} => warnings = 1
       /\ ~fallback => warnings = 0

\* the sdpa call that asked for the attention weights has returned
C8_Witness ==
    /\ pc = "done"
    /\ attn_implementation = "sdpa"
    /\ output_attentions
    /\ kernel_calls = <<"eager">>
    /\ warnings = 1

====
